---------------------------- MODULE Spec2Model ----------------------------
(***************************************************************************)
(* Model of src/models.py: the Aircraft dataclass with its hand-written    *)
(* __hash__ (the fingerprint) and AircraftAnalysisResults.fromDict.        *)
(*                                                                         *)
(* Floats.  A Python float is an IEEE double.  format_number prints the    *)
(* exact binary value, correctly rounded (ties to even) to 6 places, so    *)
(* its result only depends on where the value lies relative to the grid    *)
(* of half units of the last printed place (multiples of 5e-7).  A finite  *)
(* double is therefore modelled by                                         *)
(*     [k |-> "fin", neg, mag, res]                                        *)
(* neg is the sign bit; res = 0 says that the magnitude is exactly         *)
(* mag * 5e-7, res = 1 that it lies strictly between mag * 5e-7 and        *)
(* (mag + 1) * 5e-7.  A double is a dyadic rational, and mag * 5e-7 =      *)
(* mag / (2^7 * 5^6) is one only when 5^6 divides mag: every other grid    *)
(* point is no double, so res = 0 is allowed there only.                   *)
(* (0.1 is the double 0.1000000000000000055..., i.e. mag 200000, res 1;    *)
(* 1/128 = 0.0078125 is mag 15625, res 0, a genuine tie.)                  *)
(***************************************************************************)
EXTENDS Integers, Sequences, FiniteSets, TLC

\* ---------------------------------------------------------------- bounds
\* Small magnitudes 0 .. MaxMag (in units of 5e-7) offered for a scalar field.
MaxMag == 2
\* Longest flap sequence offered.
MaxFlaps == 2
\* Most calls of __hash__ made in a run.
MaxCalls == 3

\* ------------------------------------------------------------- constants
\* f"{n:.6f}": digits printed after the decimal point.
Places == 6

Scale == 10 ^ Places
\* mag * 5e-7 is a dyadic rational (a double) iff 5^Places divides mag.
DyadicStep == 5 ^ Places

\* ----------------------------------------------------------------- floats
Fin(neg, mag, res) == [k |-> "fin", neg |-> neg, mag |-> mag, res |-> res]
NaN == [k |-> "nan", neg |-> FALSE, mag |-> 0, res |-> 0]
Inf(neg) == [k |-> "inf", neg |-> neg, mag |-> 0, res |-> 0]

IsFinite(x) == x.k = "fin"

\* The doubles: a grid point only where it is dyadic.
IsDouble(x) == x.k = "fin" => (x.res = 0 => x.mag % DyadicStep = 0)

\* An exactly representable decimal d / 2 (d in units of 5e-7), and the
\* double nearest to a decimal that is not representable.
Exact(mag) == Fin(FALSE, mag, 0)
Above(mag) == Fin(FALSE, mag, 1)
Below(mag) == Fin(FALSE, mag - 1, 1)

\* -------------------------------------------------------- number to text
DigitChar == <<"0", "1", "2", "3", "4", "5", "6", "7", "8", "9">>

\* str of a non-negative integer.
RECURSIVE IntStr(_)
IntStr(n) == IF n < 10 THEN DigitChar[n + 1]
             ELSE IntStr(n \div 10) \o DigitChar[(n % 10) + 1]

\* n written with exactly w digits (n < 10^w).
RECURSIVE FixedDigits(_, _)
FixedDigits(n, w) == IF w = 0 THEN ""
                     ELSE FixedDigits(n \div 10, w - 1) \o DigitChar[(n % 10) + 1]

\* The magnitude rounded to a whole number of units of the last place,
\* from the exact value, ties to even (what CPython's float formatting does).
RoundHalfEven(x) ==
    LET lo == x.mag \div 2
    IN  IF x.mag % 2 = 0 THEN lo
        ELSE IF x.res = 1 THEN lo + 1
        ELSE IF lo % 2 = 0 THEN lo ELSE lo + 1

\* format_number(n) = f"{n:.6f}".  The sign is printed from the sign bit, also
\* when every printed digit is 0; nan and the infinities print as words.
format_number(n) ==
    IF n.k = "nan" THEN "nan"
    ELSE IF n.k = "inf" THEN (IF n.neg THEN "-inf" ELSE "inf")
    ELSE LET q == RoundHalfEven(n)
         IN  (IF n.neg THEN "-" ELSE "") \o IntStr(q \div Scale) \o "."
                 \o FixedDigits(q % Scale, Places)

\* --------------------------------------------------------------- Aircraft
\* The fields of Aircraft in declaration order.
AircraftFields ==
    << "m_total", "m_fuselage", "wing_density", "spar_density",
       "mainwing_span", "mainwing_AR", "mainwing_taper", "mainwing_twist",
       "mainwing_sweepback", "mainwing_dihedral", "mainwing_incidence",
       "flap_start", "flap_end", "flap_angle", "flap_c_ratio",
       "horizontal_volume_ratio", "horizontal_area_ratio", "horizontal_AR",
       "horizontal_taper", "horizontal_ThickChord", "vertical_volume_ratio",
       "vertical_taper", "vertical_ThickChord" >>

Range(s) == {s[i] : i \in DOMAIN s}

AircraftFieldSet == Range(AircraftFields)

\* The four List[float] fields; the others are float.
FlapFields == {"flap_start", "flap_end", "flap_angle", "flap_c_ratio"}
ScalarFields == AircraftFieldSet \ FlapFields

\* The code points of the field names, by which Python orders str.
Ord ==
  [ m_total |-> <<109, 95, 116, 111, 116, 97, 108>>,
    m_fuselage |-> <<109, 95, 102, 117, 115, 101, 108, 97, 103, 101>>,
    wing_density |-> <<119, 105, 110, 103, 95, 100, 101, 110, 115, 105, 116, 121>>,
    spar_density |-> <<115, 112, 97, 114, 95, 100, 101, 110, 115, 105, 116, 121>>,
    mainwing_span |-> <<109, 97, 105, 110, 119, 105, 110, 103, 95, 115, 112, 97, 110>>,
    mainwing_AR |-> <<109, 97, 105, 110, 119, 105, 110, 103, 95, 65, 82>>,
    mainwing_taper |-> <<109, 97, 105, 110, 119, 105, 110, 103, 95, 116, 97, 112, 101, 114>>,
    mainwing_twist |-> <<109, 97, 105, 110, 119, 105, 110, 103, 95, 116, 119, 105, 115, 116>>,
    mainwing_sweepback |-> <<109, 97, 105, 110, 119, 105, 110, 103, 95, 115, 119, 101, 101, 112, 98, 97, 99, 107>>,
    mainwing_dihedral |-> <<109, 97, 105, 110, 119, 105, 110, 103, 95, 100, 105, 104, 101, 100, 114, 97, 108>>,
    mainwing_incidence |-> <<109, 97, 105, 110, 119, 105, 110, 103, 95, 105, 110, 99, 105, 100, 101, 110, 99, 101>>,
    flap_start |-> <<102, 108, 97, 112, 95, 115, 116, 97, 114, 116>>,
    flap_end |-> <<102, 108, 97, 112, 95, 101, 110, 100>>,
    flap_angle |-> <<102, 108, 97, 112, 95, 97, 110, 103, 108, 101>>,
    flap_c_ratio |-> <<102, 108, 97, 112, 95, 99, 95, 114, 97, 116, 105, 111>>,
    horizontal_volume_ratio |-> <<104, 111, 114, 105, 122, 111, 110, 116, 97, 108, 95, 118, 111, 108, 117, 109, 101, 95, 114, 97, 116, 105, 111>>,
    horizontal_area_ratio |-> <<104, 111, 114, 105, 122, 111, 110, 116, 97, 108, 95, 97, 114, 101, 97, 95, 114, 97, 116, 105, 111>>,
    horizontal_AR |-> <<104, 111, 114, 105, 122, 111, 110, 116, 97, 108, 95, 65, 82>>,
    horizontal_taper |-> <<104, 111, 114, 105, 122, 111, 110, 116, 97, 108, 95, 116, 97, 112, 101, 114>>,
    horizontal_ThickChord |-> <<104, 111, 114, 105, 122, 111, 110, 116, 97, 108, 95, 84, 104, 105, 99, 107, 67, 104, 111, 114, 100>>,
    vertical_volume_ratio |-> <<118, 101, 114, 116, 105, 99, 97, 108, 95, 118, 111, 108, 117, 109, 101, 95, 114, 97, 116, 105, 111>>,
    vertical_taper |-> <<118, 101, 114, 116, 105, 99, 97, 108, 95, 116, 97, 112, 101, 114>>,
    vertical_ThickChord |-> <<118, 101, 114, 116, 105, 99, 97, 108, 95, 84, 104, 105, 99, 107, 67, 104, 111, 114, 100>> ]

\* s < t for two str, as Python compares them: code point by code point,
\* a proper prefix first.
SeqLess(s, t) ==
    \E i \in DOMAIN t :
        /\ Len(s) >= i - 1
        /\ \A j \in 1 .. (i - 1) : s[j] = t[j]
        /\ Len(s) = i - 1 \/ s[i] < t[i]

StrLess(j, k) == SeqLess(Ord[j], Ord[k])

\* The sequence s with its elements evaluated.
Materialized(s) == s \o << >>

\* A field value of the hash dictionary: a str, or a list of str.
JStr(s) == [islist |-> FALSE, str |-> s, items |-> << >>]
JList(ss) == [islist |-> TRUE, str |-> "", items |-> ss]

\* A slip in the dictionary literal: the entry "horizontal_taper" reads
\* self.vertical_taper.
HashDictSource_slip(key) ==
    IF key = "horizontal_taper" THEN "vertical_taper" ELSE key

\* Which field of self each entry of the dictionary literal reads.
HashDictSource(key) == key

\* x == y for two floats: by value, so 0.0 == -0.0, and nan equals nothing.
float_eq(x, y) ==
    /\ x.k # "nan" /\ y.k # "nan"
    /\ \/ x = y
       \/ /\ x.k = "fin" /\ y.k = "fin"
          /\ x.mag = 0 /\ x.res = 0 /\ y.mag = 0 /\ y.res = 0

\* The __eq__ that @dataclass generates: the tuples of the fields are
\* compared, a list element by element.
Aircraft_eq(self, other) ==
    \A f \in AircraftFieldSet :
        IF f \in FlapFields
        THEN /\ Len(self[f]) = Len(other[f])
             /\ \A i \in DOMAIN self[f] : float_eq(self[f][i], other[f][i])
        ELSE float_eq(self[f], other[f])

\* x < y for two floats that are not equal (nan sorted last).
float_lt(x, y) ==
    LET pos(z) == IF z.k = "nan" THEN 300 * Scale
                  ELSE IF z.k = "inf" THEN (IF z.neg THEN -200 ELSE 200) * Scale
                  ELSE IF z.neg THEN -(2 * z.mag + z.res) ELSE 2 * z.mag + z.res
    IN  pos(x) < pos(y)

\* sorted(xs) for a list of floats.
SortedFloats(xs) ==
    LET below == Materialized([j \in DOMAIN xs |->
                    Cardinality({l \in DOMAIN xs :
                        float_lt(xs[l], xs[j]) \/ (~float_lt(xs[j], xs[l]) /\ l < j)})])
    IN  [i \in DOMAIN xs |-> xs[CHOOSE j \in DOMAIN xs : below[j] = i - 1]]

\* A hash dictionary whose lists are formatted from sorted(self.flap_...).
hash_dict_sorting_lists(self) ==
  Materialized(
    [i \in DOMAIN AircraftFields |->
        LET key == AircraftFields[i]
            v == self[HashDictSource(key)]
        IN  IF key \in FlapFields
            THEN <<key, JList([j \in DOMAIN v |-> format_number(SortedFloats(v)[j])])>>
            ELSE <<key, JStr(format_number(v))>>])

\* hash_dict: the dictionary literal of __hash__, a dict in insertion order,
\* here the sequence of its (key, value) items.  Every scalar is formatted,
\* every list element by element, in index order.
hash_dict(self) ==
  Materialized(
    [i \in DOMAIN AircraftFields |->
        LET key == AircraftFields[i]
            v == self[HashDictSource(key)]
        IN  IF key \in FlapFields
            THEN <<key, JList([j \in DOMAIN v |-> format_number(v[j])])>>
            ELSE <<key, JStr(format_number(v))>>])

\* How many field names are smaller than k: ordering keys by it is ordering
\* them as str.
KeyRank ==
    [k \in AircraftFieldSet |-> Cardinality({j \in AircraftFieldSet : StrLess(j, k)})]

\* sorted(d.items()) by key: the item that has i - 1 smaller keys beside it
\* comes i-th (the keys of a dict are distinct).
SortItems(d) ==
    LET key == Materialized([i \in DOMAIN d |-> KeyRank[d[i][1]]])
        below == Materialized([j \in DOMAIN d |->
                    Cardinality({l \in DOMAIN d : key[l] < key[j]})])
    IN  Materialized([i \in DOMAIN d |->
                        d[CHOOSE j \in DOMAIN d : below[j] = i - 1]])

\* ", ".join(parts)
RECURSIVE Join(_)
Join(parts) ==
    IF parts = << >> THEN ""
    ELSE IF Len(parts) = 1 THEN parts[1]
    ELSE LET half == Len(parts) \div 2
         IN  Join(SubSeq(parts, 1, half)) \o ", "
                \o Join(SubSeq(parts, half + 1, Len(parts)))

Quoted(s) == "\"" \o s \o "\""

JValue(v) ==
    IF v.islist
    THEN "[" \o Join([j \in DOMAIN v.items |-> Quoted(v.items[j])]) \o "]"
    ELSE Quoted(v.str)

JObject(d) ==
    "{" \o Join([i \in DOMAIN d |-> Quoted(d[i][1]) \o ": " \o JValue(d[i][2])])
        \o "}"

\* json.dumps(d, sort_keys=True): the text of the object, its keys in
\* ascending order, with the default separators ", " and ": ".
json_dumps(d) == JObject(SortItems(d))

\* int.from_bytes(hashlib.sha256(s.encode()).digest()[:8], 'big').  The digest
\* is not computed: the truncated SHA-256 is taken to be collision-free, an
\* injective function of the text.
sha256_first8(s) == <<"sha256[:8]", s>>

\* What a call returns or raises.
Return(v) == [kind |-> "return", value |-> v, exc |-> ""]
Raise(e) == [kind |-> "raise", value |-> << >>, exc |-> e]

\* Aircraft.__hash__(self).  No step of it raises for a float, finite or not.
Aircraft_hash(self) == Return(sha256_first8(json_dumps(hash_dict(self))))

\* A __hash__ that stores the rounded values back into self.
self_after_hash_rounding(self) ==
    [f \in AircraftFieldSet |->
        LET r(x) == IF x.k = "fin" THEN Fin(x.neg, 2 * RoundHalfEven(x), 0) ELSE x
        IN  IF f \in FlapFields THEN [j \in DOMAIN self[f] |-> r(self[f][j])]
            ELSE r(self[f])]

\* The fields of self after __hash__: it assigns to none of them.
self_after_hash(self) == self

\* A keyword-argument call f(**kwargs): kwargs is a dict, here the sequence of
\* its (name, value) items in the order they were supplied.
KwNames(kwargs) == {kwargs[i][1] : i \in DOMAIN kwargs}
KwValue(kwargs, name) ==
    kwargs[CHOOSE i \in DOMAIN kwargs : kwargs[i][1] = name][2]

\* A constructor that binds the supplied values by position, not by name.
Aircraft_init_positional(kwargs) ==
    IF Len(kwargs) # Len(AircraftFields) THEN Raise("TypeError")
    ELSE Return([f \in AircraftFieldSet |->
            kwargs[CHOOSE i \in DOMAIN AircraftFields : AircraftFields[i] = f][2]])

\* Aircraft(**kwargs), the __init__ that @dataclass generates: every field is
\* required (none has a default), an unknown name is refused, and the values
\* are bound by name and stored as given.
Aircraft_init(kwargs) ==
    IF \E n \in KwNames(kwargs) : n \notin AircraftFieldSet
    THEN Raise("TypeError")
    ELSE IF \E f \in AircraftFieldSet : f \notin KwNames(kwargs)
    THEN Raise("TypeError")
    ELSE Return([f \in AircraftFieldSet |-> KwValue(kwargs, f)])

\* ------------------------------------------------ AircraftAnalysisResults
\* The fields of AircraftAnalysisResults in declaration order.
ResultFields ==
    << "aircraft", "m_boom", "m_wing", "m_fuel", "Lw", "Lh", "span", "AR",
       "taper", "twist", "Sref", "alpha_list", "AOA_stall", "AOA_takeoff_max",
       "AOA_climb_max", "AOA_turn_max", "CL", "CL_max", "CD_wing", "CD_fuse",
       "CD_total", "CL_flap_max", "CL_flap_zero", "CD_flap_max", "CD_flap_zero" >>

ResultFieldSet == Range(ResultFields)

\* The __init__ that @dataclass generates for AircraftAnalysisResults: every
\* field is required, an unknown name is refused.
Results_init(kwargs) ==
    IF \E n \in KwNames(kwargs) : n \notin ResultFieldSet
    THEN Raise("TypeError")
    ELSE IF \E f \in ResultFieldSet : f \notin KwNames(kwargs)
    THEN Raise("TypeError")
    ELSE Return([f \in ResultFieldSet |-> KwValue(kwargs, f)])

\* A key of the flat mapping is a str, here the sequence of the pieces it is
\* made of: the piece "aircraft." and pieces (field names, "x", "aircraft")
\* that neither hold "aircraft." nor form it when put together.
Prefix == "aircraft."

\* The str a key stands for.
RECURSIVE KeyText(_)
KeyText(k) == IF k = << >> THEN "" ELSE k[1] \o KeyText(Tail(k))

\* 'aircraft.' in k
key_contains(k) == \E i \in DOMAIN k : k[i] = Prefix

\* A key that is routed to the Aircraft without its prefix being removed.
key_replace_nothing(k) == k

\* k.replace('aircraft.', ''): every occurrence is removed.
key_replace(k) == SelectSeq(k, LAMBDA piece : piece # Prefix)

\* dict(pairs) as the sequence of its items: a name that comes again keeps
\* its first place and takes the last value.
DictOf(pairs) ==
    LET firsts == {i \in DOMAIN pairs :
                      \A j \in DOMAIN pairs : j < i => pairs[j][1] # pairs[i][1]}
        last(i) == CHOOSE j \in DOMAIN pairs :
                      /\ pairs[j][1] = pairs[i][1]
                      /\ \A l \in DOMAIN pairs : l > j => pairs[l][1] # pairs[i][1]
    IN  [n \in 1 .. Cardinality(firsts) |->
            LET i == CHOOSE i \in firsts : Cardinality({j \in firsts : j < i}) = n - 1
            IN  <<pairs[i][1], pairs[last(i)][2]>>]

\* {k.replace('aircraft.', ''): v for k, v in datadict.items() if 'aircraft.' in k}
AircraftKwargs(items) ==
    LET chosen == SelectSeq(items, LAMBDA item : key_contains(item[1]))
    IN  DictOf(Materialized(
            [i \in DOMAIN chosen |->
                <<KeyText(key_replace(chosen[i][1])), chosen[i][2]>>]))

\* {k: v for k, v in datadict.items() if not ('aircraft.' in k)}
RecordKwargs(items) ==
    LET chosen == SelectSeq(items, LAMBDA item : ~key_contains(item[1]))
    IN  DictOf(Materialized(
            [i \in DOMAIN chosen |-> <<KeyText(chosen[i][1]), chosen[i][2]>>]))

NoLocals == [aircraft_kwargs |-> << >>, record_kwargs |-> << >>, reached |-> 0]

\* The dicts fromDict builds: the first always, the second only when
\* Aircraft(...) has not raised.
fromDict_locals(datadict) ==
    LET akw == AircraftKwargs(datadict)
    IN  IF Aircraft_init(akw).kind = "raise"
        THEN [aircraft_kwargs |-> akw, record_kwargs |-> << >>, reached |-> 1]
        ELSE [aircraft_kwargs |-> akw, record_kwargs |-> RecordKwargs(datadict),
              reached |-> 2]

\* AircraftAnalysisResults.fromDict(datadict).  cls(**datadict, aircraft=...)
\* raises TypeError when datadict itself has the key "aircraft".
fromDict(datadict) ==
    LET aircraft == Aircraft_init(AircraftKwargs(datadict))
    IN  IF aircraft.kind = "raise" THEN aircraft
        ELSE LET rkw == RecordKwargs(datadict)
             IN  IF "aircraft" \in KwNames(rkw) THEN Raise("TypeError")
                 ELSE Results_init(Append(rkw, <<"aircraft", aircraft.value>>))

\* The caller's mapping after the call: fromDict rebinds its parameter to a
\* new dict and changes nothing in the dict it was given.
datadict_after_fromDict(datadict) == datadict

\* ------------------------------------------------------------ the inputs
\* The design point the varied aircraft are derived from:
\* m_total 5.0, m_fuselage 1.0, wing_density 0.1, spar_density 0.2, span 2.0,
\* AR 8.0, taper 0.5, twist, sweepback, dihedral, incidence 0.0, one flap
\* 0.1 .. 0.3 at 10.0 degrees with chord ratio 0.2, the tail 0.5, 0.2, 4.0,
\* 0.6, 0.12, 0.04, 0.6, 0.12.
Example ==
  [ m_total |-> Exact(10000000), m_fuselage |-> Exact(2000000),
    wing_density |-> Above(200000), spar_density |-> Above(400000),
    mainwing_span |-> Exact(4000000), mainwing_AR |-> Exact(16000000),
    mainwing_taper |-> Exact(1000000), mainwing_twist |-> Exact(0),
    mainwing_sweepback |-> Exact(0), mainwing_dihedral |-> Exact(0),
    mainwing_incidence |-> Exact(0),
    flap_start |-> <<Above(200000)>>, flap_end |-> <<Below(600000)>>,
    flap_angle |-> <<Exact(20000000)>>, flap_c_ratio |-> <<Above(400000)>>,
    horizontal_volume_ratio |-> Exact(1000000),
    horizontal_area_ratio |-> Above(400000),
    horizontal_AR |-> Exact(8000000), horizontal_taper |-> Below(1200000),
    horizontal_ThickChord |-> Below(240000),
    vertical_volume_ratio |-> Above(80000),
    vertical_taper |-> Below(1200000), vertical_ThickChord |-> Below(240000) ]

\* The values offered for a scalar field: both zeros, the doubles within
\* MaxMag half units of zero on either side, the ties 1/128 (0.0078125) and
\* 3/128 (0.0234375) with their neighbours, the neighbours of 2.0, and the
\* three non-finite floats.
ScalarSamples ==
    {Fin(s, 0, 0) : s \in BOOLEAN}
      \cup {Fin(s, m, 1) : s \in BOOLEAN, m \in 0 .. MaxMag}
      \cup {Fin(FALSE, 15625, 0), Fin(FALSE, 15625, 1), Fin(FALSE, 15624, 1),
            Fin(FALSE, 46875, 0),
            Fin(FALSE, 4000000, 0), Fin(FALSE, 4000000, 1),
            Fin(FALSE, 3999999, 1)}
      \cup {NaN, Inf(FALSE), Inf(TRUE)}

\* The values offered for a flap element: 0.1, 0.0999998 (which prints as
\* 0.1 does), 0.3 and nan.
FlapSamples == {Above(200000), Below(200000), Below(600000), NaN}

SeqsUpTo(S, n) == UNION {[1 .. m -> S] : m \in 0 .. n}

Perms(n) == {p \in [1 .. n -> 1 .. n] : \A i, j \in 1 .. n : p[i] = p[j] => i = j}

Permuted(s, p) == [i \in DOMAIN s |-> s[p[i]]]

\* The orders the fields are supplied in: the declaration order, and the
\* scalars and the lists each in reverse.
Mirror(i) ==
    LET same == {j \in DOMAIN AircraftFields :
                    (AircraftFields[j] \in FlapFields)
                        = (AircraftFields[i] \in FlapFields)}
        rank == Cardinality({j \in same : j <= i})
    IN  CHOOSE j \in same : Cardinality({l \in same : l >= j}) = rank

DeclarationOrder == [i \in DOMAIN AircraftFields |-> i]
MirroredOrder == [i \in DOMAIN AircraftFields |-> Mirror(i)]

KwargsOf(values, order) ==
    [i \in DOMAIN order |-> <<AircraftFields[order[i]], values[AircraftFields[order[i]]]>>]

\* ------------------------------------------------------------- the state
VARIABLES
    heap,      \* the Aircraft objects constructed: "a", "b" -> its fields
    made,      \* per object, the fields it was constructed with
    supplied,  \* per object, the kwargs it was constructed from
    site,      \* the field in which "a" and "b" were varied
    fps,       \* per object, what its calls of __hash__ returned, in order
    datadict,  \* the caller's flat mapping, handed to fromDict
    given,     \* the flat mapping as the caller built it
    origin,    \* the record the mapping was flattened from, and how altered
    locals,    \* the keyword arguments fromDict built in its call
    result     \* what fromDict returned or raised

hashVars == <<heap, made, supplied, site, fps>>
dictVars == <<datadict, given, origin, locals, result>>
vars == <<heap, made, supplied, site, fps, datadict, given, origin, locals, result>>

Ext(f, k, v) == [x \in DOMAIN f \cup {k} |-> IF x = k THEN v ELSE f[x]]

NoCall == [kind |-> "none", value |-> << >>, exc |-> ""]

\* The loader constructs "a": the example with one field f set to v.
ConstructA ==
    /\ "a" \notin DOMAIN heap
    /\ \E f \in AircraftFieldSet, order \in {DeclarationOrder} :
         \E v \in IF f \in FlapFields THEN SeqsUpTo(FlapSamples \ {NaN}, MaxFlaps)
                                      ELSE ScalarSamples :
            LET kw == KwargsOf([Example EXCEPT ![f] = v], order)
                r == Aircraft_init(kw)
            IN  /\ r.kind = "return"
                /\ heap' = Ext(heap, "a", r.value)
                /\ made' = Ext(made, "a", r.value)
                /\ supplied' = Ext(supplied, "a", kw)
                /\ fps' = Ext(fps, "a", << >>)
                /\ site' = f
    /\ UNCHANGED dictVars

\* The values "b" takes at the site: any scalar; for a list, a reordering of
\* a's list or a's list with one element replaced.
Variants(f, v) ==
    IF f \in FlapFields
    THEN {Permuted(v, p) : p \in Perms(Len(v))}
           \cup {[v EXCEPT ![i] = w] : i \in DOMAIN v, w \in FlapSamples}
    ELSE ScalarSamples

\* The loader constructs "b": as "a", but for the site.
ConstructB ==
    /\ "a" \in DOMAIN heap
    /\ "b" \notin DOMAIN heap
    /\ \E order \in {MirroredOrder}, w \in Variants(site, heap["a"][site]) :
            LET kw == KwargsOf([heap["a"] EXCEPT ![site] = w], order)
                r == Aircraft_init(kw)
            IN  /\ r.kind = "return"
                /\ heap' = Ext(heap, "b", r.value)
                /\ made' = Ext(made, "b", r.value)
                /\ supplied' = Ext(supplied, "b", kw)
                /\ fps' = Ext(fps, "b", << >>)
    /\ UNCHANGED <<site, datadict, given, origin, locals, result>>

\* hash(x) on a constructed object, e.g. as a dict or cache key.
Hash ==
    /\ \E x \in DOMAIN heap :
          /\ DOMAIN heap = {"a", "b"}
          /\ Len(fps["a"]) + Len(fps["b"]) < MaxCalls
          /\ fps' = [fps EXCEPT ![x] = Append(@, Aircraft_hash(heap[x]))]
          /\ heap' = [heap EXCEPT ![x] = self_after_hash(@)]
    /\ UNCHANGED <<made, supplied, site, datadict, given, origin, locals, result>>

\* The analysis outputs the flattened records carry: a different value in
\* every field, the five sequences of length 2.
ExampleOutputs ==
    [i \in 2 .. Len(ResultFields) |->
        IF ResultFields[i] \in {"alpha_list", "CL", "CD_wing", "CD_fuse", "CD_total"}
        THEN <<Exact(DyadicStep * i), Above(DyadicStep * i)>>
        ELSE Exact(DyadicStep * i)]

\* The records that are flattened.
ExampleAircraft ==
    {Example, [Example EXCEPT !.mainwing_twist = Fin(TRUE, 0, 0)],
     [Example EXCEPT !.flap_start = <<Above(200000), Below(600000)>>,
                     !.flap_end = <<Below(600000), Exact(1000000)>>]}

ResultsWith(aircraft) ==
    [f \in ResultFieldSet |->
        IF f = "aircraft" THEN aircraft
        ELSE ExampleOutputs[CHOOSE i \in 2 .. Len(ResultFields) : ResultFields[i] = f]]

\* r flattened: its own fields under their names, the fields of r.aircraft
\* under "aircraft." + name.
Flatten(r) ==
    [i \in 1 .. (Len(ResultFields) - 1) |->
        << <<ResultFields[i + 1]>>, r[ResultFields[i + 1]] >>]
      \o [i \in DOMAIN AircraftFields |->
            << <<Prefix, AircraftFields[i]>>, r.aircraft[AircraftFields[i]] >>]

Reverse(s) == [i \in DOMAIN s |-> s[Len(s) + 1 - i]]

\* Keys that a flattened record does not have.
OddKeys ==
    { <<"x", Prefix, "m_total">>, <<Prefix, Prefix, "m_total">>,
      <<"span", Prefix>>, <<Prefix, "m_boom">>, <<"m_total">>, <<"aircraft">> }

NoOrigin == [rec |-> << >>, dropped |-> << >>, added |-> << >>]

\* The storage layer hands over a flat mapping: a record flattened, in the
\* order of Flatten or in reverse, with at most one key dropped and at most
\* one odd key added.
Supply ==
    /\ given = << >>
    /\ \E aircraft \in ExampleAircraft, rev \in BOOLEAN :
         LET r == ResultsWith(aircraft)
             flat == IF rev THEN Reverse(Flatten(r)) ELSE Flatten(r)
         IN  \E drop \in {0} \cup DOMAIN flat, add \in {<< >>} \cup OddKeys :
                LET kept == IF drop = 0 THEN flat
                            ELSE SubSeq(flat, 1, drop - 1)
                                   \o SubSeq(flat, drop + 1, Len(flat))
                    dd == IF add = << >> THEN kept
                          ELSE Append(kept, <<add, Exact(DyadicStep)>>)
                IN  /\ datadict' = dd
                    /\ given' = dd
                    /\ origin' = [rec |-> r,
                                  dropped |-> IF drop = 0 THEN << >> ELSE flat[drop][1],
                                  added |-> add]
    /\ UNCHANGED <<locals, result>>
    /\ UNCHANGED hashVars

\* AircraftAnalysisResults.fromDict(datadict) is called.
FromDict ==
    /\ given # << >>
    /\ result = NoCall
    /\ result' = fromDict(datadict)
    /\ locals' = fromDict_locals(datadict)
    /\ datadict' = datadict_after_fromDict(datadict)
    /\ UNCHANGED <<given, origin>>
    /\ UNCHANGED hashVars

Init ==
    /\ heap = << >>
    /\ made = << >>
    /\ supplied = << >>
    /\ fps = << >>
    /\ site = ""
    /\ datadict = << >>
    /\ given = << >>
    /\ origin = NoOrigin
    /\ locals = NoLocals
    /\ result = NoCall

Next == ConstructA \/ ConstructB \/ Hash

Spec == Init /\ [][Next]_vars

\* The reconstruction of records from flat mappings.
NextFromDict == Supply \/ FromDict

SpecFromDict == Init /\ [][NextFromDict]_vars

\* Every float the model holds is a double, every list within its bound.
TypeOK ==
    \A x \in DOMAIN heap : \A f \in AircraftFieldSet :
        IF f \in FlapFields
        THEN \A i \in DOMAIN heap[x][f] : IsDouble(heap[x][f][i])
        ELSE IsDouble(heap[x][f])

\* ----------------------------------------------------- the claims, hashing
\* The interval of half units a finite float lies in: [Lo, Hi], a single
\* point when res = 0 and the open interval otherwise.
Lo(x) == IF x.neg THEN -(x.mag + x.res) ELSE x.mag
Hi(x) == IF x.neg THEN -x.mag ELSE x.mag + x.res

\* |x - y| >= 1e-6 is possible for floats modelled by x and y: 1e-6 is two
\* half units, and the bound of an open interval is not attained.
DiffersByAtLeastUlp(x, y) ==
    IF x.k = "nan" \/ y.k = "nan" THEN FALSE
    ELSE IF x.k = "inf" /\ y.k = "inf" THEN x.neg # y.neg
    ELSE IF x.k = "inf" \/ y.k = "inf" THEN TRUE
    ELSE LET d == IF Hi(x) - Lo(y) > Hi(y) - Lo(x)
                  THEN Hi(x) - Lo(y) ELSE Hi(y) - Lo(x)
         IN  d > 2 \/ (d = 2 /\ x.res = 0 /\ y.res = 0)

\* x and y are the same number once rounded to 6 decimal places (as numbers:
\* -0.000000 is 0.000000).
SameTo6Places(x, y) ==
    /\ x.k = "fin" /\ y.k = "fin"
    /\ (IF x.neg THEN -RoundHalfEven(x) ELSE RoundHalfEven(x))
         = (IF y.neg THEN -RoundHalfEven(y) ELSE RoundHalfEven(y))

BothHashed == DOMAIN heap = {"a", "b"} /\ fps["a"] # << >> /\ fps["b"] # << >>

FpA == fps["a"][1]
FpB == fps["b"][1]

\* C1 (as stated): two Aircraft equal to 6 decimal places in every scalar and
\* every flap element have the same fingerprint.
C1_PrecisionCollapse ==
    (BothHashed
       /\ \A f \in AircraftFieldSet :
            IF f \in FlapFields
            THEN /\ Len(heap["a"][f]) = Len(heap["b"][f])
                 /\ \A i \in DOMAIN heap["a"][f] :
                       SameTo6Places(heap["a"][f][i], heap["b"][f][i])
            ELSE SameTo6Places(heap["a"][f], heap["b"][f]))
    => FpA = FpB

\* a and b agree everywhere but in one scalar, or in one element of one flap
\* list, where they differ by at least 1e-6.
OneFieldApart ==
    LET x == heap["a"][site]
        y == heap["b"][site]
    IN  /\ \A f \in AircraftFieldSet \ {site} : heap["a"][f] = heap["b"][f]
        /\ IF site \in FlapFields
           THEN /\ Len(x) = Len(y)
                /\ \E i \in DOMAIN x :
                      /\ DiffersByAtLeastUlp(x[i], y[i])
                      /\ \A j \in DOMAIN x \ {i} : x[j] = y[j]
           ELSE DiffersByAtLeastUlp(x, y)

\* C2: two Aircraft identical but for one field (a scalar, or one element of
\* a flap list) that differs by at least 1e-6 get different serializations,
\* hence different fingerprints.
C2_Sensitivity ==
    (BothHashed /\ OneFieldApart)
    => /\ FpA.kind = "return" /\ FpB.kind = "return"
       /\ FpA.value # FpB.value

\* C2 happens: the two differ in the last scalar of the dictionary by barely
\* more than 1e-6 (0.0000000... against 0.0000010...), and both were hashed.
C2_Witness ==
    /\ BothHashed /\ OneFieldApart
    /\ site = "vertical_ThickChord"
    /\ heap["a"][site] = Fin(FALSE, 0, 1)
    /\ heap["b"][site] = Fin(FALSE, 2, 1)
    /\ FpA.value # FpB.value

\* b's list at the site is a's list reordered into a different list.
Reordered ==
    /\ site \in FlapFields
    /\ \A f \in AircraftFieldSet \ {site} : heap["a"][f] = heap["b"][f]
    /\ \E p \in Perms(Len(heap["a"][site])) :
          heap["b"][site] = Permuted(heap["a"][site], p)
    /\ heap["b"][site] # heap["a"][site]

\* C3 (as stated): reordering the elements of a flap list, the multiset of
\* values kept, changes the fingerprint.
C3_AnyReorderChanges ==
    (BothHashed /\ Reordered) => FpA.value # FpB.value

\* C3 (amended): a reordering of a flap list that leaves, at some index, an
\* element differing by at least 1e-6 from the one that was there changes the
\* fingerprint: the list is serialized in index order, never sorted.
C3_ReorderChanges ==
    (BothHashed /\ Reordered
       /\ \E i \in DOMAIN heap["a"][site] :
            DiffersByAtLeastUlp(heap["a"][site][i], heap["b"][site][i]))
    => FpA.value # FpB.value

\* C3 happens: [0.1, 0.3] against [0.3, 0.1] in flap_angle.
C3_Witness ==
    /\ BothHashed /\ Reordered
    /\ site = "flap_angle"
    /\ heap["a"][site] = <<Above(200000), Below(600000)>>
    /\ heap["b"][site] = <<Below(600000), Above(200000)>>
    /\ FpA.value # FpB.value

\* The field -> value mapping an object was constructed from.
SuppliedValues(x) == [f \in KwNames(supplied[x]) |-> KwValue(supplied[x], f)]

NonFinite(self) ==
    \E f \in AircraftFieldSet :
        IF f \in FlapFields THEN \E i \in DOMAIN self[f] : ~IsFinite(self[f][i])
        ELSE ~IsFinite(self[f])

\* C5 (as stated): fingerprinting an Aircraft that holds a NaN or an infinity
\* in a scalar or in a flap list raises InvalidConfiguration and returns no
\* fingerprint.
C5_NonFiniteRejected ==
    \A x \in DOMAIN heap : \A i \in DOMAIN fps[x] :
        NonFinite(heap[x])
          => fps[x][i].kind = "raise" /\ fps[x][i].exc = "InvalidConfiguration"

C10_HashEqConsistent ==
    (BothHashed /\ Aircraft_eq(heap["a"], heap["b"])) => FpA = FpB

\* ---------------------------------------------- the claims, reconstruction
Called == result.kind # "none"

Unaltered == origin.dropped = << >> /\ origin.added = << >>

\* C6: a record flattened into one mapping and handed to fromDict comes back
\* equal in every field, the fields of the nested Aircraft included.
C6_RoundTrip ==
    (Called /\ Unaltered) => result = Return(origin.rec)

\* C6 happens: a record with two flap segments, its mapping in reverse order.
C6_Witness ==
    /\ Called /\ Unaltered
    /\ given = Reverse(Flatten(origin.rec))
    /\ origin.rec.aircraft.flap_start = <<Above(200000), Below(600000)>>
    /\ result.kind = "return"
    /\ result.value.aircraft = origin.rec.aircraft
    /\ result.value.CL = origin.rec.CL

\* The partition by prefix: a key belongs to the Aircraft iff it begins with
\* "aircraft.", under the name that is left when that one prefix is removed.
StartsWithPrefix(k) == k # << >> /\ k[1] = Prefix

PrefixAircraftKwargs(items) ==
    LET chosen == SelectSeq(items, LAMBDA item : StartsWithPrefix(item[1]))
    IN  DictOf(Materialized(
            [i \in DOMAIN chosen |-> <<KeyText(Tail(chosen[i][1])), chosen[i][2]>>]))

PrefixRecordKwargs(items) ==
    LET chosen == SelectSeq(items, LAMBDA item : ~StartsWithPrefix(item[1]))
    IN  DictOf(Materialized(
            [i \in DOMAIN chosen |-> <<KeyText(chosen[i][1]), chosen[i][2]>>]))

\* C7 (as stated): fromDict routes a key to the Aircraft iff the key begins
\* with "aircraft.", under the key less that one prefix; every other key goes
\* unchanged to the result record.
C7_PrefixPartition ==
    Called =>
      /\ locals.aircraft_kwargs = PrefixAircraftKwargs(given)
      /\ locals.reached = 2 => locals.record_kwargs = PrefixRecordKwargs(given)

\* The mapping has no key "aircraft." + f for a field f of Aircraft, or no key
\* f for a field f of the result record.
LacksRequired(items) ==
    \/ \E f \in AircraftFieldSet :
          \A i \in DOMAIN items : items[i][1] # <<Prefix, f>>
    \/ \E f \in ResultFieldSet \ {"aircraft"} :
          \A i \in DOMAIN items : items[i][1] # <<f>>

\* C8 (as stated): a mapping that lacks a required field makes fromDict raise
\* (TypeError, the MissingField of the error taxonomy), no record is returned
\* and the mapping is as it was given.
C8_FailFast ==
    (Called /\ LacksRequired(given))
    => /\ result.kind = "raise" /\ result.exc = "TypeError"
       /\ result.value = << >>
       /\ datadict = given
=============================================================================
